---- MODULE Spec2Model ----
(***************************************************************************)
(* A model of lib/moduleConcatStream.js: the Readable stream that walks a  *)
(* module graph from an entry file, gives every discovered file an id (its *)
(* index in _files), rewrites require(...) call sites to __require(id,     *)
(* parent) and pushes one wrapped chunk per file between a project header  *)
(* and footer.                                                             *)
(*                                                                         *)
(* Text is modelled as a sequence of tokens (a piece of plain code, a line *)
(* break, a // comment running to the end of its line, a require("name")   *)
(* call site, __dirname, __filename), paths and module names as strings.   *)
(* JavaScript indices are kept 0-based: index i of an array is position    *)
(* i + 1 of the sequence.                                                  *)
(***************************************************************************)
EXTENDS Integers, Sequences, FiniteSets, TLC

(***************************************************************************)
(* Bounds of the model.                                                    *)
(***************************************************************************)
\* How many times fs.readFileSync may throw in one run.
MaxReadFailures == 2

(***************************************************************************)
(* The world outside the class: paths, the path module, the resolver.      *)
(***************************************************************************)
\* The process's working directory is "/"; the project's files live in it.
AbsA == "/a.js"
AbsB == "/b.js"
AbsC == "/c.js"
AbsE == "/e.json"
AbsD == "/d.node"
PkgMain == "/node_modules/pkg/index.js"
PkgBrowser == "/node_modules/pkg/browser.js"

\* Files that fs.readFileSync can be asked for (always by absolute location).
ReadablePaths == {AbsA, AbsB, AbsC, AbsE, PkgMain, PkgBrowser}

\* path.resolve(p): an absolute path is returned as it is, a relative one is
\* joined to the working directory.
PathResolve(p) ==
  CASE p = "a.js" -> AbsA
    [] p = "b.js" -> AbsB
    [] p = "c.js" -> AbsC
    [] p = "e.json" -> AbsE
    [] OTHER -> p

\* path.extname(p)
Extname(p) ==
  CASE p \in {AbsE, "e.json"} -> ".json"
    [] p = AbsD -> ".node"
    [] p = "fs" -> ""
    [] OTHER -> ".js"

\* path.relative(path.dirname(outputPath), filePath) for an output file in the
\* working directory: both arguments are resolved, then the common prefix "/"
\* is dropped.
PathRelative(filePath) ==
  CASE PathResolve(filePath) = AbsA -> "a.js"
    [] PathResolve(filePath) = AbsB -> "b.js"
    [] PathResolve(filePath) = AbsC -> "c.js"
    [] PathResolve(filePath) = AbsE -> "e.json"
    [] PathResolve(filePath) = PkgMain -> "node_modules/pkg/index.js"
    [] PathResolve(filePath) = PkgBrowser -> "node_modules/pkg/browser.js"
    [] OTHER -> filePath

\* The module names that appear in require("...") call sites.
ModuleNames == {"./a", "./b", "./c", "./d", "./e", "./missing", "fs", "pkg"}

\* resolve.isCore(x)
IsCore(x) == x = "fs"

\* modulePath.match(/^\.?\.?\//) != null: the name begins with "./", "../" or "/".
LooksLikePath(name) == name \in {"./a", "./b", "./c", "./d", "./e", "./missing"}

\* What resolve.sync throws with when nothing matches.
THROWS == "<MODULE_NOT_FOUND>"

\* resolve.sync(name, {basedir: "/", extensions: ["", ".js", ".json", ".node"],
\* packageFilter}): a core name is returned as it is, a relative name is probed
\* with the extensions in order, a package name is looked up in node_modules
\* and its package.json "main" (replaced by "browser" under the browser
\* option's packageFilter) names the file.
ResolveSync(name, browser) ==
  CASE name = "fs" -> "fs"
    [] name = "./a" -> AbsA
    [] name = "./b" -> AbsB
    [] name = "./c" -> AbsC
    [] name = "./d" -> AbsD
    [] name = "./e" -> AbsE
    [] name = "pkg" -> (IF browser THEN PkgBrowser ELSE PkgMain)
    [] OTHER -> THROWS

(***************************************************************************)
(* Text.                                                                   *)
(***************************************************************************)
Tok(t, name, index, parentIndex) ==
  [t |-> t, name |-> name, index |-> index, parentIndex |-> parentIndex]

Code == Tok("code", "", -1, -1)
NL == Tok("nl", "", -1, -1)
\* "// ..." to the end of the line, with no call site in it.
Comment == Tok("comment", "", -1, -1)
\* require("name")
Require(name) == Tok("require", name, -1, -1)
\* "// ... require("name") ..." to the end of the line.
CommentRequire(name) == Tok("commentRequire", name, -1, -1)
Dirname == Tok("__dirname", "", -1, -1)
Filename == Tok("__filename", "", -1, -1)
\* "__require(" + index + "," + parentIndex + ")", outside or inside a comment.
RequireCall(index, parentIndex) == Tok("__require", "", index, parentIndex)
CommentRequireCall(index, parentIndex) ==
  Tok("comment__require", "", index, parentIndex)
\* "__getDirname(" + JSON.stringify(rel) + ")" and "__getFilename(...)".
GetDirname(rel) == Tok("__getDirname", rel, -1, -1)
GetFilename(rel) == Tok("__getFilename", rel, -1, -1)

IsComment(tok) == tok.t \in {"comment", "commentRequire", "comment__require"}
\* A token the requireRegex matches in.
IsSite(tok) == tok.t \in {"require", "commentRequire"}

\* array.indexOf(x): the first 0-based index of x, -1 when absent.
IndexOf(arr, x) ==
  IF \E i \in 1..Len(arr) : arr[i] = x
  THEN (CHOOSE i \in 1..Len(arr) :
          arr[i] = x /\ \A j \in 1..(i - 1) : arr[j] # x) - 1
  ELSE -1

\* The number of leading line breaks of s.
RECURSIVE LeadingBreaks(_)
LeadingBreaks(s) ==
  IF s # <<>> /\ Head(s).t = "nl" THEN 1 + LeadingBreaks(Tail(s)) ELSE 0

\* code.replace(/(?:\r\n?|\n)\s*\/\/.*/g, ""): a match starts at a line break,
\* runs over any white space (further line breaks included) to a "//" and
\* from there to the end of that line; the matches are found left to right.
RECURSIVE StripComments(_)
StripComments(s) ==
  IF s = <<>> THEN <<>>
  ELSE LET n == LeadingBreaks(s) IN
       IF n > 0 /\ Len(s) > n /\ IsComment(s[n + 1])
       THEN StripComments(SubSeq(s, n + 2, Len(s)))
       ELSE <<Head(s)>> \o StripComments(Tail(s))

(***************************************************************************)
(* Inputs: the file contents, the entry path and the options.              *)
(***************************************************************************)
\* Sources of the project's modules.
SourcesA ==
  { <<Code>>,
    <<Code, NL, Comment, NL, Code>>,
    <<Require("./b"), NL, Require("./c")>>,
    <<CommentRequire("./b"), NL, CommentRequire("./c"), NL, Code, Comment>>,
    <<Require("fs"), Require("./d"), Require("./missing")>>,
    <<Dirname, Require("pkg"), Require("./e"), Filename>>,
    <<Require("./c"), Require("./a")>> }

SourcesB ==
  { <<Code>>,
    <<Require("./c"), NL, NL, Comment>>,
    <<Require("./missing"), Require("./a")>> }

SourcesC == { <<Code>>, <<Require("./a"), Require("./d")>> }

\* The file system: the text readFileSync returns for each readable file.
FileSystems ==
  { [p \in ReadablePaths |->
       CASE p = AbsA -> a
         [] p = AbsB -> b
         [] p = AbsC -> c
         [] p = AbsE -> <<Code, NL, Code>>
         [] OTHER -> <<Code>>] :
    a \in SourcesA, b \in SourcesB, c \in SourcesC }

\* The entry path as the caller passes it: relative to the working directory
\* or absolute.
EntryPaths == {"a.js", AbsA, "e.json"}

\* options.excludeFiles as the caller passes it.
ExcludeLists == { <<>>, <<AbsA>>, <<AbsB, "c.js">> }

\* options.outputPath: absent, or a file in the working directory.
NoOutputPath == ""
OutputPaths == {NoOutputPath, "/bundle.js"}

(***************************************************************************)
(* The state.                                                              *)
(***************************************************************************)
VARIABLES
  fs,               \* the file system (does not change during a run)
  entryModulePath,  \* the constructor's first argument
  options,          \* this._options
  files,            \* this._files
  fileIndex,        \* this._fileIndex
  addonsExcluded,   \* this._addonsExcluded
  headerWritten,    \* this._headerWritten
  pc,               \* where the running _read call stands; "idle": none runs
  filePath,         \* _addFile's argument
  code,             \* _addFile's local `code`
  at,               \* how many tokens of `code` String.replace has passed
  out,              \* the chunks pushed so far, the null (EOF) included
  ready,            \* what the last push of a chunk returned
  backpressure,     \* whether some push of this run has returned false
  errorsScheduled,  \* process.nextTick callbacks registered so far
  errorsEmitted,    \* "error" events emitted so far
  stats,            \* how the last getStats() call ended
  resolveCalls      \* the names resolve.sync has been called with

vars ==
  <<fs, entryModulePath, options, files, fileIndex, addonsExcluded,
    headerWritten, pc, filePath, code, at, out, ready, backpressure,
    errorsScheduled, errorsEmitted, stats, resolveCalls>>

\* Chunks.
Chunk(kind, id, path, prefix, body) ==
  [kind |-> kind, id |-> id, path |-> path, prefix |-> prefix, body |-> body]
HEADER == Chunk("HEADER", -1, "", FALSE, <<>>)
FOOTER == Chunk("FOOTER", -1, "", FALSE, <<>>)
EOF == Chunk("EOF", -1, "", FALSE, <<>>)
\* FILE_HEADER with ${id} and ${path} replaced, "module.exports = " for a JSON
\* file, the code, FILE_FOOTER with ${id} and ${path} replaced.
FileChunk(id, path, body) == Chunk("FILE", id, path, Extname(path) = ".json", body)

\* push(null) has been called: the stream has ended and _read is not called
\* again.
Ended == out # <<>> /\ out[Len(out)].kind = "EOF"

\* getStats() outcomes.
NotCalled == [outcome |-> "none", files |-> <<>>, addonsExcluded |-> <<>>]
Threw == [outcome |-> "threw", files |-> <<>>, addonsExcluded |-> <<>>]
Returned(f, a) == [outcome |-> "returned", files |-> f, addonsExcluded |-> a]

\* for(i...) opts.excludeFiles[i] = path.resolve(opts.excludeFiles[i])
ResolveAll(list) == [i \in 1..Len(list) |-> PathResolve(list[i])]

\* The constructor.
Init ==
  /\ fs \in FileSystems
  /\ entryModulePath \in EntryPaths
  /\ \E ex \in ExcludeLists, o \in OutputPaths, nm \in BOOLEAN, br \in BOOLEAN :
       options = [excludeFiles |-> ResolveAll(ex), outputPath |-> o,
                  excludeNodeModules |-> nm, browser |-> br]
  /\ files = <<entryModulePath>>
  /\ fileIndex = 0
  /\ addonsExcluded = <<>>
  /\ headerWritten = FALSE
  /\ pc = "idle"
  /\ filePath = ""
  /\ code = <<>>
  /\ at = 0
  /\ out = <<>>
  /\ ready = TRUE
  /\ backpressure = FALSE
  /\ errorsScheduled = 0
  /\ errorsEmitted = 0
  /\ stats = NotCalled
  /\ resolveCalls = {}

(***************************************************************************)
(* _continueProcessing, one step per push or file read.                    *)
(***************************************************************************)
\* this.push(chunk): the chunk is queued and the consumer's answer returned.
Push(chunk, ret) ==
  /\ out' = Append(out, chunk)
  /\ ready' = ret
  /\ backpressure' = (backpressure \/ ~ret)

\* A header flag that is latched only when the header's push is accepted.
HeaderWrittenIfAccepted(ret) == ret

\* this._headerWritten = true, set before the header's push is answered.
HeaderWrittenAfterPush(ret) == TRUE

\* A producer that goes on whatever push answers.
ContinueAnyway(ret) == "loop"

\* if(!this.push(...)) return; and if(!this._addFile(...)) return;
\* a push answered false ends the _read call, one answered true goes on to
\* the while loop.
Continue(ret) == IF ret THEN "loop" ELSE "idle"

\* _read(size): the consumer asks for data. The header is written on the
\* first call only; a push answered false ends the call.
Read ==
  /\ pc = "idle"
  /\ ~Ended
  /\ IF ~headerWritten
     THEN \E ret \in BOOLEAN :
            /\ headerWritten' = HeaderWrittenAfterPush(ret)
            /\ Push(HEADER, ret)
            /\ pc' = Continue(ret)
     ELSE /\ pc' = "loop"
          /\ UNCHANGED <<headerWritten, out, ready, backpressure>>
  /\ UNCHANGED <<resolveCalls, fs, entryModulePath, options, files, fileIndex,
                 addonsExcluded, filePath, code, at, errorsScheduled,
                 errorsEmitted, stats>>

\* A loop test that stops one file early.
HasNextFileButLast(i, fl) == i + 1 < Len(fl)

\* while(this._fileIndex < this._files.length)
HasNextFile(i, fl) == i < Len(fl)

\* A cursor that moves two files on.
MarkIncludedTwice(i) == i + 2

\* this._fileIndex++
MarkIncluded(i) == i + 1

\* _addFile(this._files[this._fileIndex]), up to the comment strip:
\* readFileSync returns the text, the file is marked included, the line
\* comments are removed.
AddFileRead ==
  /\ pc = "loop"
  /\ HasNextFile(fileIndex, files)
  /\ filePath' = files[fileIndex + 1]
  /\ fileIndex' = MarkIncluded(fileIndex)
  /\ code' = StripComments(fs[PathResolve(files[fileIndex + 1])])
  /\ at' = 0
  /\ pc' = "replace"
  /\ UNCHANGED <<resolveCalls, fs, entryModulePath, options, files, addonsExcluded,
                 headerWritten, out, ready, backpressure, errorsScheduled,
                 errorsEmitted, stats>>

\* _addFile when readFileSync throws: the catch block registers the
\* nextTick callback and returns false, which ends the _read call.
AddFileReadThrows ==
  /\ pc = "loop"
  /\ HasNextFile(fileIndex, files)
  /\ errorsScheduled < MaxReadFailures
  /\ errorsScheduled' = errorsScheduled + 1
  /\ pc' = "idle"
  /\ UNCHANGED <<resolveCalls, fs, entryModulePath, options, files, fileIndex,
                 addonsExcluded, headerWritten, filePath, code, at, out,
                 ready, backpressure, errorsEmitted, stats>>

\* The nextTick callback: this.emit("error", err).
EmitError ==
  /\ pc = "idle"
  /\ errorsEmitted < errorsScheduled
  /\ errorsEmitted' = errorsEmitted + 1
  /\ UNCHANGED <<resolveCalls, fs, entryModulePath, options, files, fileIndex,
                 addonsExcluded, headerWritten, pc, filePath, code, at, out,
                 ready, backpressure, errorsScheduled, stats>>

(***************************************************************************)
(* The require(...) replacer of _addFile.                                  *)
(***************************************************************************)
\* A lookup that never finds the path.
LookupMiss(fl, modulePath) == -1

\* this._files.indexOf(modulePath)
Lookup(fl, modulePath) == IndexOf(fl, modulePath)

\* An exclusion test that overlooks the first path of excludeFiles.
IsExcludedButFirst(opts, modulePath) == IndexOf(opts.excludeFiles, modulePath) > 0

\* this._options.excludeFiles && excludeFiles.indexOf(modulePath) >= 0
IsExcluded(opts, modulePath) == IndexOf(opts.excludeFiles, modulePath) >= 0

\* An insertion at the front of the list.
InsertFirst(fl, modulePath) == <<modulePath>> \o fl

\* this._files.push(modulePath)
Insert(fl, modulePath) == Append(fl, modulePath)

\* An extension test that knows no native module.
IsNativeNever(modulePath) == FALSE

\* path.extname(modulePath).toLowerCase() === ".node"
IsNative(modulePath) == Extname(modulePath) = ".node"

\* A call with its two arguments the other way round.
RewrittenSwapped(tok, index, parentIndex) ==
  IF tok.t = "require" THEN RequireCall(parentIndex, index)
  ELSE CommentRequireCall(parentIndex, index)

\* The call site's text replaced by "__require(index,parentIndex)".
Rewritten(tok, index, parentIndex) ==
  IF tok.t = "require" THEN RequireCall(index, parentIndex)
  ELSE CommentRequireCall(index, parentIndex)

\* A core test that reads the browser flag the wrong way round.
KeepsCoreInBrowser(opts, modulePath) == IsCore(modulePath) /\ opts.browser

\* resolve.isCore(modulePath) && this._options.browser !== true
KeepsCore(opts, modulePath) == IsCore(modulePath) /\ ~opts.browser

\* A catch block that drops the call site.
UnresolvedDropped(tok) == Code

\* catch(e) { return match; } around resolve.sync
Unresolved(tok) == tok

\* The callback given to code.replace(requireRegex, ...), called for the
\* match `tok` in file `fp`: what it leaves in _files and _addonsExcluded,
\* the text it returns for the match, and whether it called resolve.sync. The module names of the model hold
\* no backslash, so the un-escaping of "\\\\" leaves them as they are.
Replacer(fl, ad, opts, fp, tok) ==
  LET skip == [files |-> fl, addonsExcluded |-> ad, tok |-> tok,
               resolved |-> FALSE]
      keep == [skip EXCEPT !.resolved = TRUE]
  IN
  IF KeepsCore(opts, tok.name) THEN skip
  ELSE IF opts.excludeNodeModules /\ ~LooksLikePath(tok.name) THEN skip
  ELSE
    LET modulePath == ResolveSync(tok.name, opts.browser) IN
    IF modulePath = THROWS THEN [keep EXCEPT !.tok = Unresolved(tok)]
    ELSE IF IsCore(modulePath) THEN keep
    ELSE IF IsNative(modulePath)
    THEN [keep EXCEPT !.addonsExcluded = Append(ad, modulePath)]
    ELSE
      LET index == Lookup(fl, modulePath) IN
      IF index < 0
      THEN IF ~IsExcluded(opts, modulePath)
           THEN LET pushed == Insert(fl, modulePath) IN
                [keep EXCEPT !.files = pushed,
                             !.tok = Rewritten(tok, Len(pushed) - 1,
                                               IndexOf(pushed, fp))]
           ELSE keep
      ELSE [keep EXCEPT !.tok = Rewritten(tok, index, IndexOf(fl, fp))]

\* Whether String.replace has a match left after position n of s.
HasSiteAfter(s, n) == \E j \in (n + 1)..Len(s) : IsSite(s[j])

\* The position of the next match after position n of s.
NextSite(s, n) ==
  CHOOSE j \in (n + 1)..Len(s) :
    IsSite(s[j]) /\ \A k \in (n + 1)..(j - 1) : ~IsSite(s[k])

\* One call of the replacer, for the next match of requireRegex in `code`.
ReplaceCallback ==
  /\ pc = "replace"
  /\ HasSiteAfter(code, at)
  /\ LET j == NextSite(code, at)
         r == Replacer(files, addonsExcluded, options, filePath, code[j])
     IN /\ files' = r.files
        /\ addonsExcluded' = r.addonsExcluded
        /\ code' = [code EXCEPT ![j] = r.tok]
        /\ at' = j
        /\ resolveCalls' = IF r.resolved
                           THEN resolveCalls \cup {code[j].name}
                           ELSE resolveCalls
  /\ UNCHANGED <<fs, entryModulePath, options, fileIndex, headerWritten, pc,
                 filePath, out, ready, backpressure, errorsScheduled,
                 errorsEmitted, stats>>

\* this._options.outputPath && this._options.browser !== true
RewritesPathTokens(opts) == opts.outputPath # NoOutputPath /\ ~opts.browser

\* code.replace(dirnameRegex, ...).replace(filenameRegex, ...): both calls
\* get path.relative(path.dirname(outputPath), filePath).
ReplacePathTokens(s, fp) ==
  [i \in 1..Len(s) |->
     CASE s[i].t = "__dirname" -> GetDirname(PathRelative(fp))
       [] s[i].t = "__filename" -> GetFilename(PathRelative(fp))
       [] OTHER -> s[i]]

\* An id taken from the cursor.
FileIdCursor(fl, fp) == fileIndex

\* this._files.indexOf(filePath), the ${id} of FILE_HEADER and FILE_FOOTER.
FileId(fl, fp) == IndexOf(fl, fp)

\* The rest of _addFile once every match has been replaced: the path tokens
\* are rewritten, the file is wrapped and pushed, and push's answer decides
\* whether the while loop of _continueProcessing goes on.
AddFilePush ==
  /\ pc = "replace"
  /\ ~HasSiteAfter(code, at)
  /\ LET body == IF RewritesPathTokens(options)
                 THEN ReplacePathTokens(code, filePath) ELSE code
     IN \E ret \in BOOLEAN :
          /\ Push(FileChunk(FileId(files, filePath), filePath, body), ret)
          /\ pc' = Continue(ret)
  /\ filePath' = ""
  /\ code' = <<>>
  /\ at' = 0
  /\ UNCHANGED <<resolveCalls, fs, entryModulePath, options, files, fileIndex,
                 addonsExcluded, headerWritten, errorsScheduled,
                 errorsEmitted, stats>>

\* this.push(FOOTER), once the while loop has run out of files; what push
\* answers is not looked at.
WriteFooter ==
  /\ pc = "loop"
  /\ ~HasNextFile(fileIndex, files)
  /\ \E ret \in BOOLEAN : Push(FOOTER, ret)
  /\ pc' = "eof"
  /\ UNCHANGED <<resolveCalls, fs, entryModulePath, options, files, fileIndex,
                 addonsExcluded, headerWritten, filePath, code, at,
                 errorsScheduled, errorsEmitted, stats>>

\* this.push(null)
WriteEOF ==
  /\ pc = "eof"
  /\ out' = Append(out, EOF)
  /\ pc' = "idle"
  /\ UNCHANGED <<resolveCalls, fs, entryModulePath, options, files, fileIndex,
                 addonsExcluded, headerWritten, filePath, code, at, ready,
                 backpressure, errorsScheduled, errorsEmitted, stats>>

\* A test that is off by one.
StatsUnavailableOffByOne(i, fl) == i <= Len(fl)

\* this._fileIndex < this._files.length
StatsUnavailable(i, fl) == i < Len(fl)

\* A getStats that hands over _addonsExcluded and starts a new list.
GetStatsDraining ==
  /\ pc = "idle"
  /\ stats' = IF StatsUnavailable(fileIndex, files) THEN Threw
              ELSE Returned(files, addonsExcluded)
  /\ addonsExcluded' = IF StatsUnavailable(fileIndex, files)
                       THEN addonsExcluded ELSE <<>>
  /\ UNCHANGED <<resolveCalls, fs, entryModulePath, options, files, fileIndex,
                 headerWritten, pc, filePath, code, at, out, ready,
                 backpressure, errorsScheduled, errorsEmitted>>

\* getStats(), called between two _read calls.
GetStats ==
  /\ pc = "idle"
  /\ stats' = IF StatsUnavailable(fileIndex, files) THEN Threw
              ELSE Returned(files, addonsExcluded)
  /\ UNCHANGED <<resolveCalls, fs, entryModulePath, options, files, fileIndex,
                 addonsExcluded, headerWritten, pc, filePath, code, at, out,
                 ready, backpressure, errorsScheduled, errorsEmitted>>

Next ==
  \/ Read
  \/ AddFileRead
  \/ AddFileReadThrows
  \/ ReplaceCallback
  \/ AddFilePush
  \/ WriteFooter
  \/ WriteEOF
  \/ EmitError
  \/ GetStats

Spec == Init /\ [][Next]_vars

(***************************************************************************)
(* What the properties below are stated with.                              *)
(***************************************************************************)
IsPrefix(s, t) == Len(s) <= Len(t) /\ \A i \in 1..Len(s) : s[i] = t[i]

\* How many entries of arr equal x.
Count(arr, x) == Cardinality({i \in 1..Len(arr) : arr[i] = x})

\* The positions of the file chunks in the pushed sequence o.
FileChunks(o) == {k \in 1..Len(o) : o[k].kind = "FILE"}

\* The text of a file that the replacer scans: its source without the line
\* comments. The replacer and the path-token rewrite keep token positions.
Scanned(path) == StripComments(fs[PathResolve(path)])

IsCall(tok) == tok.t \in {"__require", "comment__require"}

\* The call sites of the file pushed as chunk k.
SitesOf(k) == {j \in 1..Len(Scanned(out[k].path)) : IsSite(Scanned(out[k].path)[j])}

\* The path the call site at position j of chunk k's file resolves to.
TargetOf(k, j) == ResolveSync(Scanned(out[k].path)[j].name, options.browser)

\* Whether the call site at position j of chunk k was pushed as it was read.
Unchanged(k, j) == out[k].body[j] = Scanned(out[k].path)[j]

\* The pushed bytes: the chunks one after the other, each file chunk being
\* its header, the JSON prefix if any, its body and its footer.
Bytes(chunk) ==
  CASE chunk.kind = "HEADER" -> <<Tok("HEADER", "", -1, -1)>>
    [] chunk.kind = "FOOTER" -> <<Tok("FOOTER", "", -1, -1)>>
    [] chunk.kind = "FILE" ->
         <<Tok("FILE_HEADER", chunk.path, chunk.id, -1)>>
         \o (IF chunk.prefix THEN <<Tok("module.exports = ", "", -1, -1)>>
             ELSE <<>>)
         \o chunk.body
         \o <<Tok("FILE_FOOTER", chunk.path, chunk.id, -1)>>
    [] OTHER -> <<>>

RECURSIVE Concat(_)
Concat(o) == IF o = <<>> THEN <<>> ELSE Bytes(Head(o)) \o Concat(Tail(o))

\* Unconstrained consumption: the run in which every push answers true and
\* every read succeeds, computed in one go from the entry, the options and
\* the file contents. RunReplace is one file's String.replace, RunFiles the
\* while loop of _continueProcessing.
RECURSIVE RunReplace(_, _, _, _, _)
RunReplace(fl, ad, s, n, fp) ==
  IF ~HasSiteAfter(s, n) THEN [files |-> fl, addonsExcluded |-> ad, code |-> s]
  ELSE LET j == NextSite(s, n)
           r == Replacer(fl, ad, options, fp, s[j])
       IN RunReplace(r.files, r.addonsExcluded, [s EXCEPT ![j] = r.tok], j, fp)

RECURSIVE RunFiles(_, _, _, _)
RunFiles(fl, ad, i, o) ==
  IF ~(i < Len(fl))
  THEN [files |-> fl, addonsExcluded |-> ad, out |-> o \o <<FOOTER, EOF>>]
  ELSE LET fp == fl[i + 1]
           r == RunReplace(fl, ad, Scanned(fp), 0, fp)
           body == IF RewritesPathTokens(options)
                   THEN ReplacePathTokens(r.code, fp) ELSE r.code
       IN RunFiles(r.files, r.addonsExcluded, i + 1,
                   Append(o, FileChunk(IndexOf(r.files, fp), fp, body)))

Unconstrained == RunFiles(<<entryModulePath>>, <<>>, 0, <<HEADER>>)

\* How many chunks have been pushed when the run stands where it stands.
ExpectedLen ==
  CASE ~headerWritten -> 0
    [] pc = "replace" -> fileIndex
    [] pc = "eof" -> Len(files) + 2
    [] Ended -> Len(files) + 3
    [] OTHER -> fileIndex + 1

(***************************************************************************)
(* C1: in a run in which every read succeeds, whatever the pushes answer,  *)
(* the pushed sequence is the header once, then one chunk for each index   *)
(* of _files in increasing order, wrapped with that index as id and that   *)
(* entry's path, then the footer once, then EOF once. At every point of    *)
(* the run the pushed sequence is the prefix of that sequence that the     *)
(* cursor stands for, so a suspension neither skips nor repeats an entry.  *)
(***************************************************************************)
C1_EmissionOrder ==
  errorsScheduled = 0 =>
    /\ fileIndex <= Len(files)
    /\ Len(out) = ExpectedLen
    /\ \A k \in 1..Len(out) :
         \/ k = 1 /\ out[k] = HEADER
         \/ /\ 1 < k /\ k <= Len(files) + 1
            /\ out[k].kind = "FILE"
            /\ out[k].id = k - 2
            /\ out[k].path = files[k - 1]
         \/ k = Len(files) + 2 /\ out[k] = FOOTER
         \/ k = Len(files) + 3 /\ out[k] = EOF

\* A run of three files or more that was suspended and has ended.
C1_Witness ==
  Ended /\ backpressure /\ errorsScheduled = 0 /\ Len(files) >= 3

(***************************************************************************)
(* C2: whichever pushes report backpressure, a run that ends has the file  *)
(* list (so the id of every file), the addon-excluded list and the pushed  *)
(* chunks (so their concatenation) of unconstrained consumption, which     *)
(* depends on the entry, the options and the file contents alone.          *)
(***************************************************************************)
C2_BackpressureIndependent ==
  Ended =>
    /\ files = Unconstrained.files
    /\ addonsExcluded = Unconstrained.addonsExcluded
    /\ out = Unconstrained.out
    /\ Concat(out) = Concat(Unconstrained.out)

\* An ended run that discovered files and an addon and was suspended.
C2_Witness ==
  Ended /\ backpressure /\ Len(files) >= 3 /\ addonsExcluded # <<>>

(***************************************************************************)
(* C3: no two entries of _files denote the same file, also for the entry   *)
(* that the constructor stores as it was passed.                           *)
(***************************************************************************)
C3_NoFileTwice ==
  \A i, j \in 1..Len(files) :
    i # j => PathResolve(files[i]) # PathResolve(files[j])

(***************************************************************************)
(* C4: the entry is at index 0, and every step leaves _files as it is or   *)
(* appends one path at its end: a path keeps its index and a new path gets *)
(* the previous length as index.                                           *)
(***************************************************************************)
C4_AppendOnly ==
  /\ [](IndexOf(files, entryModulePath) = 0)
  /\ [][/\ IsPrefix(files, files')
        /\ Len(files') <= Len(files) + 1
        /\ \A p \in {files'[i] : i \in 1..Len(files')} :
             IndexOf(files, p) < 0 => IndexOf(files', p) = Len(files)]_vars

\* Two paths have been appended behind the entry.
C4_Witness == Len(files) >= 3 /\ files[1] = entryModulePath

(***************************************************************************)
(* C5: two call sites in two different pushed files that resolve to the    *)
(* same path.                                                              *)
(***************************************************************************)
\* Whether the replacer gets as far as the lookup for `name`: the name is
\* handed to the resolver, which returns the path of a file that is not a
\* native module.
ReachesLookup(name) ==
  /\ ~(IsCore(name) /\ ~options.browser)
  /\ ~(options.excludeNodeModules /\ ~LooksLikePath(name))
  /\ ResolveSync(name, options.browser) # THROWS
  /\ ~IsCore(ResolveSync(name, options.browser))
  /\ ~IsNative(ResolveSync(name, options.browser))

\* Both sites are __require calls with the one index of their target.
SameTarget(k1, j1, k2, j2) ==
  /\ Count(files, TargetOf(k1, j1)) = 1
  /\ IsCall(out[k1].body[j1])
  /\ IsCall(out[k2].body[j2])
  /\ out[k1].body[j1].index = IndexOf(files, TargetOf(k1, j1))
  /\ out[k2].body[j2].index = IndexOf(files, TargetOf(k1, j1))

\* Two sites of two different pushed files with the same resolved path.
SharedTarget(k1, j1, k2, j2) ==
  /\ PathResolve(out[k1].path) # PathResolve(out[k2].path)
  /\ TargetOf(k1, j1) = TargetOf(k2, j2)
  /\ TargetOf(k1, j1) # THROWS
  /\ ~IsCore(TargetOf(k1, j1))

\* C5 as claimed: whenever two different files each hold a call site that
\* resolves to the same absolute path, _files has exactly one entry for the
\* path and both sites are __require calls with that entry's index.
C5_AsClaimed ==
  \A k1, k2 \in FileChunks(out) : \A j1 \in SitesOf(k1), j2 \in SitesOf(k2) :
    SharedTarget(k1, j1, k2, j2) => SameTarget(k1, j1, k2, j2)

\* C5 as amended: the same, for a path the replacer may include: one that is
\* not a native module, not in excludeFiles, and whose call sites are not
\* skipped by the excludeNodeModules option.
C5_SharedDependency ==
  \A k1, k2 \in FileChunks(out) : \A j1 \in SitesOf(k1), j2 \in SitesOf(k2) :
    /\ SharedTarget(k1, j1, k2, j2)
    /\ ReachesLookup(Scanned(out[k1].path)[j1].name)
    /\ ReachesLookup(Scanned(out[k2].path)[j2].name)
    /\ ~IsExcluded(options, TargetOf(k1, j1))
    => SameTarget(k1, j1, k2, j2)

\* Two different pushed files both hold a rewritten call to the same file.
C5_Witness ==
  \E k1, k2 \in FileChunks(out) : \E j1 \in SitesOf(k1), j2 \in SitesOf(k2) :
    /\ SharedTarget(k1, j1, k2, j2)
    /\ ReachesLookup(Scanned(out[k1].path)[j1].name)
    /\ ~IsExcluded(options, TargetOf(k1, j1))
    /\ SameTarget(k1, j1, k2, j2)

(***************************************************************************)
(* C6: when getStats throws.                                               *)
(***************************************************************************)
\* C6 as claimed: getStats returns only once the footer and EOF have been
\* pushed.
C6_AsClaimed == stats.outcome = "returned" => Ended

\* C6 as amended: a getStats call throws exactly when some entry of _files
\* has not been read and pushed yet; it returns from the moment the last
\* file's chunk has been pushed, before the footer and EOF are.
C6_ThrowsUntilLastFilePushed ==
  [][GetStats =>
       (stats'.outcome = "threw"
          <=> Cardinality(FileChunks(out)) < Len(files))]_vars

\* getStats has thrown in a run that has already pushed a file.
C6_Witness == stats.outcome = "threw" /\ FileChunks(out) # {}

(***************************************************************************)
(* C7: a read failure leads to one error notification: no second nextTick  *)
(* callback is ever registered, whatever _read calls follow.               *)
(***************************************************************************)
C7_OneErrorNotification == errorsScheduled <= 1

(***************************************************************************)
(* C8: once a read has failed, nothing more is pushed and no file is read  *)
(* again, whatever _read calls follow.                                     *)
(***************************************************************************)
C8_ErroredIsAbsorbing ==
  [][errorsScheduled > 0 =>
       /\ out' = out
       /\ fileIndex' = fileIndex
       /\ errorsScheduled' = errorsScheduled]_vars

(***************************************************************************)
(* C9: the paths of excludeFiles.                                          *)
(***************************************************************************)
\* No entry of _files is p, and every pushed call site that resolves to p
\* is as it was read.
KeptOut(p) ==
  /\ IndexOf(files, p) < 0
  /\ \A k \in FileChunks(out) : \A j \in SitesOf(k) :
       TargetOf(k, j) = p => Unchanged(k, j)

ExcludedPaths == {options.excludeFiles[i] : i \in 1..Len(options.excludeFiles)}

\* C9 as claimed: every path of excludeFiles is kept out, the entry path
\* included.
C9_AsClaimed == \A p \in ExcludedPaths : KeptOut(p)

\* C9 as amended: every path of excludeFiles other than the entry path as it
\* was passed to the constructor is kept out.
C9_ExcludedKeptOut ==
  \A p \in ExcludedPaths \ {entryModulePath} : KeptOut(p)

\* A call site that resolves to an excluded path has been pushed.
C9_Witness ==
  \E k \in FileChunks(out) : \E j \in SitesOf(k) :
    /\ TargetOf(k, j) \in ExcludedPaths \ {entryModulePath}
    /\ ReachesLookup(Scanned(out[k].path)[j].name)
    /\ Unchanged(k, j)

(***************************************************************************)
(* C10: an entry without call sites, no outputPath.                        *)
(***************************************************************************)
EntrySource == fs[PathResolve(entryModulePath)]

NoCallSite(s) == \A j \in 1..Len(s) : ~IsSite(s[j])

\* GLOBAL_HEADER, FILE_HEADER(0, entry), body, FILE_FOOTER(0, entry),
\* GLOBAL_FOOTER, computed from the templates.
Wrapped(body) ==
  <<Tok("HEADER", "", -1, -1), Tok("FILE_HEADER", entryModulePath, 0, -1)>>
  \o body
  \o <<Tok("FILE_FOOTER", entryModulePath, 0, -1), Tok("FOOTER", "", -1, -1)>>

\* C10 as claimed: the output is the templates around the raw source.
C10_AsClaimed ==
  (Ended /\ NoCallSite(EntrySource) /\ options.outputPath = NoOutputPath)
    => Concat(out) = Wrapped(EntrySource)

\* C10 as amended: the output is the templates around the source without
\* its line comments (each line break that white space and a // comment
\* follow is removed with the comment), with "module.exports = " before it
\* when the entry is a .json file.
C10_RoundTrip ==
  (Ended /\ NoCallSite(EntrySource) /\ options.outputPath = NoOutputPath)
    => Concat(out) =
         Wrapped((IF Extname(entryModulePath) = ".json"
                  THEN <<Tok("module.exports = ", "", -1, -1)>> ELSE <<>>)
                 \o StripComments(EntrySource))

\* An ended run of an entry without call sites whose source has a line
\* comment that is stripped.
C10_Witness ==
  /\ Ended
  /\ NoCallSite(EntrySource)
  /\ options.outputPath = NoOutputPath
  /\ StripComments(EntrySource) # EntrySource

(***************************************************************************)
(* The replacer's early returns.                                           *)
(***************************************************************************)
\* The position of the match the next replacer call is given.
Site == NextSite(code, at)

\* The next replacer call hands its match to resolve.sync.
SiteResolved == code[Site].name \in resolveCalls'

\* What resolve.sync answers for the next match.
SiteTarget == ResolveSync(code[Site].name, options.browser)

\* C11: a reference that resolves to a path with the extension .node keeps its
\* call site, appends the resolved path to _addonsExcluded and leaves _files
\* alone, so that no .node path is ever in _files; _addonsExcluded only
\* grows at its end, and no step that grows it changes _files.
C11_NativeReference ==
  /\ [](\A i \in 1..Len(files) : Extname(files[i]) # ".node")
  /\ [][(ReplaceCallback /\ SiteResolved /\ Extname(SiteTarget) = ".node")
          => /\ code' = code
             /\ files' = files
             /\ addonsExcluded' = Append(addonsExcluded, SiteTarget)]_vars
  /\ [][/\ IsPrefix(addonsExcluded, addonsExcluded')
        /\ addonsExcluded' # addonsExcluded => files' = files]_vars

\* A run that has pushed, as a file other than the entry, a file with a
\* reference to a native module.
C11_Witness ==
  /\ addonsExcluded = <<AbsD>>
  /\ \E k \in FileChunks(out) :
       /\ out[k].id >= 1
       /\ \E j \in SitesOf(k) : TargetOf(k, j) = AbsD /\ Unchanged(k, j)

\* C12: with the browser option off, a reference to a core module keeps its
\* call site, adds nothing to _files and nothing to _addonsExcluded, and is
\* never handed to resolve.sync.
C12_CoreReference ==
  /\ [](~options.browser => \A name \in resolveCalls : ~IsCore(name))
  /\ [][(ReplaceCallback /\ ~options.browser /\ IsCore(code[Site].name))
          => /\ code' = code
             /\ files' = files
             /\ addonsExcluded' = addonsExcluded
             /\ resolveCalls' = resolveCalls]_vars

\* A run with the browser option off that has pushed a file with a reference
\* to a core module, next to references that were resolved.
C12_Witness ==
  /\ ~options.browser
  /\ resolveCalls # {}
  /\ \E k \in FileChunks(out) :
       \E j \in SitesOf(k) :
         IsCore(Scanned(out[k].path)[j].name) /\ Unchanged(k, j)

\* C13: when resolve.sync throws for a reference, the replacer returns the
\* call site as it was and goes on with the next match: the step changes
\* nothing but the position of the scan, so that neither list changes, no
\* error is scheduled or emitted, and the _read call is not ended.
C13_UnresolvableReference ==
  [][(ReplaceCallback /\ SiteResolved /\ SiteTarget = THROWS)
       => /\ at' = Site
          /\ UNCHANGED <<code, files, addonsExcluded, fileIndex, pc, filePath,
                         headerWritten, out, ready, errorsScheduled,
                         errorsEmitted>>]_vars

\* A run without an error that has ended after pushing a file with an
\* unresolvable reference and, after it, a file that a later reference of that
\* file brought in.
C13_Witness ==
  /\ Ended
  /\ errorsScheduled = 0
  /\ \E k \in FileChunks(out) :
       \E j \in SitesOf(k), j2 \in SitesOf(k) :
         /\ TargetOf(k, j) = THROWS /\ Unchanged(k, j)
         /\ j < j2 /\ IsCall(out[k].body[j2])
         /\ \E k2 \in FileChunks(out) :
              k2 > k /\ out[k2].id = out[k].body[j2].index

(***************************************************************************)
(* The ids of the rewritten calls.                                         *)
(***************************************************************************)
\* The position of the footer in the pushed sequence, 0 while it is not
\* pushed.
FooterAt == IF \E f \in 1..Len(out) : out[f].kind = "FOOTER"
            THEN CHOOSE f \in 1..Len(out) : out[f].kind = "FOOTER" ELSE 0

\* C14: a call __require(index, parentIndex) in the chunk pushed with id i
\* has parentIndex = i and index = the place in _files of the path the
\* reference resolves to; the index is within _files when the call is
\* written, and once the stream has ended the file at that index has been
\* pushed under that id before the footer.
C14_CallIds ==
  /\ [](\A k \in FileChunks(out) :
          \A j \in SitesOf(k) :
            IsCall(out[k].body[j]) =>
              LET call == out[k].body[j] IN
              /\ call.parentIndex = out[k].id
              /\ call.index = IndexOf(files, TargetOf(k, j))
              /\ call.index \in 0..(Len(files) - 1)
              /\ Ended =>
                   \E k2 \in FileChunks(out) :
                     /\ out[k2].id = call.index
                     /\ out[k2].path = TargetOf(k, j)
                     /\ k2 < FooterAt)
  /\ [][(ReplaceCallback /\ IsCall(code'[Site]))
          => /\ code'[Site].index \in 0..(Len(files') - 1)
             /\ files'[code'[Site].index + 1] = SiteTarget
             /\ code'[Site].parentIndex = IndexOf(files', filePath)]_vars

\* An ended run in which one file calls a file pushed after it and another
\* calls a file pushed before it.
C14_Witness ==
  /\ Ended
  /\ \E k \in FileChunks(out) :
       \E j \in SitesOf(k) :
         IsCall(out[k].body[j]) /\ out[k].body[j].index > out[k].id
  /\ \E k \in FileChunks(out) :
       \E j \in SitesOf(k) :
         IsCall(out[k].body[j]) /\ out[k].body[j].index < out[k].id

(***************************************************************************)
(* Runs in which readFileSync never throws, the consumer calls _read again *)
(* after every call that has returned before the end of the stream, and a  *)
(* running _read call goes on to its next statement.                       *)
(***************************************************************************)
NextReadsSucceed ==
  \/ Read
  \/ AddFileRead
  \/ ReplaceCallback
  \/ AddFilePush
  \/ WriteFooter
  \/ WriteEOF
  \/ GetStats

FairSpec ==
  /\ Init
  /\ [][NextReadsSucceed]_vars
  /\ WF_vars(Read)
  /\ WF_vars(AddFileRead)
  /\ WF_vars(ReplaceCallback)
  /\ WF_vars(AddFilePush)
  /\ WF_vars(WriteFooter)
  /\ WF_vars(WriteEOF)

\* C15: when no read fails and the consumer keeps asking, every run, over a
\* graph with cycles and self references too, gets to the state where the
\* footer and the null have been pushed and the cursor is at the length of
\* _files.
C15_Terminates ==
  <>(/\ Ended
     /\ FooterAt = Len(out) - 1
     /\ fileIndex = Len(files))

\* A run that was suspended on its way and has ended over a graph of three
\* files or more in which a file calls itself or a file pushed before it.
C15_Witness ==
  /\ Ended
  /\ backpressure
  /\ fileIndex = Len(files)
  /\ Len(files) >= 3
  /\ \E k \in FileChunks(out) :
       \E j \in SitesOf(k) :
         IsCall(out[k].body[j]) /\ out[k].body[j].index <= out[k].id

(***************************************************************************)
(* Suspension.                                                             *)
(***************************************************************************)
\* The kind of the chunk pushed last in o, "" when nothing has been pushed.
LastKind(o) == IF o = <<>> THEN "" ELSE o[Len(o)].kind

\* No _read call has gone on since the last push: none is running, or the
\* running one stands right behind its push of the footer.
NotResumed == pc \notin {"loop", "replace"}

\* What a suspended producer keeps.
Frozen == UNCHANGED <<out, fileIndex, files, addonsExcluded, headerWritten>>

\* C16 as stated: a push of the header, of a file chunk or of the footer
\* that is answered false ends the _read call, and until the next _read call
\* nothing is pushed, the null included, and the cursor, both lists and the
\* header flag stay as they are.
C16_AsClaimed ==
  /\ [][(out' # out /\ ~ready' /\ LastKind(out') \in {"HEADER", "FILE", "FOOTER"})
          => pc' = "idle"]_vars
  /\ [][(~ready /\ LastKind(out) \in {"HEADER", "FILE", "FOOTER"} /\ NotResumed)
          => (Read \/ Frozen)]_vars

\* C16: a push of the header or of a file chunk that is answered false ends
\* the _read call, and until the next _read call nothing is pushed and the
\* cursor, both lists and the header flag stay as they are. The footer is
\* followed by the null within the same call, whatever push answered: no
\* _read call returns between the two.
C16_SuspendsBeforeFooter ==
  /\ [][(out' # out /\ ~ready' /\ LastKind(out') \in {"HEADER", "FILE"})
          => pc' = "idle"]_vars
  /\ [][(~ready /\ LastKind(out) \in {"HEADER", "FILE"} /\ NotResumed)
          => (Read \/ Frozen)]_vars
  /\ []((FooterAt > 0 /\ pc = "idle") => Ended)

\* A producer suspended by the answer to a file chunk, with files left, on
\* which getStats has been called since.
C16_Witness ==
  /\ ~ready
  /\ pc = "idle"
  /\ LastKind(out) = "FILE"
  /\ fileIndex < Len(files)
  /\ stats.outcome = "threw"

(***************************************************************************)
(* The statistics.                                                         *)
(***************************************************************************)
\* The cursor is at the length of _files and the file read last has been
\* scanned: no file is left and none is being processed.
Complete == fileIndex = Len(files) /\ pc # "replace"

\* C17: once the cursor is at the length of _files with no file being
\* processed, it stays there and _files and _addonsExcluded do not change
\* again, whatever _read and getStats calls follow; a getStats call changes
\* nothing of the stream, whether it throws or returns; and once getStats
\* has returned, every later call returns the same two sequences.
C17_FrozenStatistics ==
  /\ [][Complete
          => /\ Complete'
             /\ files' = files
             /\ addonsExcluded' = addonsExcluded]_vars
  /\ [][GetStats
          => UNCHANGED <<files, fileIndex, addonsExcluded, headerWritten, out,
                         ready, pc, filePath, code, at, options,
                         errorsScheduled, errorsEmitted>>]_vars
  /\ [][stats.outcome = "returned"
          => /\ stats'.outcome = "returned"
             /\ stats'.files = stats.files
             /\ stats'.addonsExcluded = stats.addonsExcluded]_vars

\* getStats has returned both lists non-empty in a run that has ended with a
\* footer whose push was answered false.
C17_Witness ==
  /\ stats.outcome = "returned"
  /\ Len(stats.files) >= 2
  /\ stats.addonsExcluded # <<>>
  /\ Ended
  /\ ~ready

(***************************************************************************)
(* Line comments.                                                          *)
(***************************************************************************)
\* Position j of s begins a line: it is the first of the text or follows a
\* line break.
AtLineStart(s, j) == j = 1 \/ s[j - 1].t = "nl"

\* C18: a call site in a line comment, i.e. in a comment that begins its
\* line, is gone before the replacer scans the text, on the first line of the
\* file as on any other: the scanned text has no such comment, and no
\* replacer call is made for one, so none changes _files or _addonsExcluded.
C18_LineCommentSitesRemoved ==
  /\ [](pc = "replace" =>
          \A j \in 1..Len(code) :
            (IsComment(code[j]) /\ AtLineStart(code, j))
              => code[j].t \notin {"commentRequire", "comment__require"})
  /\ [][(ReplaceCallback /\ IsComment(code[Site]) /\ AtLineStart(code, Site))
          => files' = files /\ addonsExcluded' = addonsExcluded]_vars

(***************************************************************************)
(* After a read failure.                                                   *)
(***************************************************************************)
\* C19: once a read has failed, the cursor stays below the length of _files
\* in every state in which a call can arrive, and no getStats call returns:
\* a run that hit a read failure never has statistics.
C19_NoStatisticsAfterReadFailure ==
  errorsScheduled > 0 =>
    /\ pc = "idle" => fileIndex < Len(files)
    /\ stats.outcome # "returned"

====
